---- MODULE Spec2Model ----
(***************************************************************************)
(* Akfix Outreach Automator: the App component (working set, Draft Record  *)
(* Store, archive, generation context) and the services it awaits.         *)
(*                                                                         *)
(* React state is modelled as React keeps it: the variables customers,     *)
(* generatedMessages, savedItems, analyzingIds, context and status hold    *)
(* the state of the last render, which is what every handler closure       *)
(* reads and what the operator sees; queued holds the result of the state  *)
(* updates that have been enqueued (setX calls) and not rendered yet.      *)
(* A functional update setX(prev => f(prev)) applies f to the queued       *)
(* value, an update by value setX(v) replaces it, which is what processing *)
(* the update queue in order yields.  Updates enqueued inside a React      *)
(* event handler (onClick, onChange) are rendered before the next event;   *)
(* updates enqueued by the continuation of an await are rendered by a      *)
(* later Render step.                                                      *)
(***************************************************************************)
EXTENDS Bags, FiniteSets, Integers, Sequences, TLC

(***************************************************************************)
(* Bounds                                                                  *)
(***************************************************************************)
\* records returned by one extraction call
MaxRecords == 2
\* readings of Date.now(): 1..MaxTime
MaxTime == 2
\* extraction calls started in one behaviour
MaxIngests == 2
\* generation calls in flight when the operator starts another one
MaxInFlight == 2
\* generateDraft calls made in one behaviour
MaxIssued == 2
\* continuations of an await whose updates wait for a render
MaxQueued == 1
\* campaign settings that differ from the initial ones
MaxEdits == 1
\* customers of the working set a Generate All run starts from
BatchRecords == 4
\* generateDraft calls made by the runs of one behaviour of SpecBatch
BatchIssued == 5
\* Generate All runs in progress at the same time
MaxRuns == 1
\* archive entries when the operator archives another one
MaxSaved == 2
\* length of the phone strings made of every character of PhoneChars
MaxPhoneLen == 5
\* parts of the phone strings made of PhoneParts and delimiters
MaxPieces == 3
\* columns of the spreadsheets made of HeaderWords
MaxHeaders == 2
\* data rows of a spreadsheet
MaxRows == 2
\* fields of the mapping the operator has set to another header than the
\* proposed one
MaxMapEdits == 1
\* generation calls in flight when a customer card starts another one
RateInFlight == 4

(***************************************************************************)
(* Program constants                                                       *)
(***************************************************************************)
BATCH_SIZE == 3

Sources == {"img", "txt"}
Times == 1..MaxTime
Languages == {"en", "ar"}

\* id: `cust-${source}-${Date.now()}-${index}`; the three parts are kept
\* apart by the "-" separators, so the string is the triple
Ids == Sources \X Times \X (0..(MaxRecords - 1))

\* a Customer; App reads no field of it but id
Customer(id) == [id |-> id]

NoError == "null"

DefaultContext ==
    [senderCompany |-> "Akkim Construction Chemicals",
     exhibitionName |-> "Canton Fair",
     exhibitionLocation |-> "Guangzhou, China"]

\* what the operator types into a campaign setting: another value, or the
\* initial one again
Typed(field) == {"Other", DefaultContext[field]}

\* the campaign settings that differ from the initial ones
Edited(ctx) == {f \in DOMAIN ctx : ctx[f] # DefaultContext[f]}
ContextFields == {"senderCompany", "exhibitionName", "exhibitionLocation"}

\* the JSON texts the generation service answers with
ResponseData ==
    {[emailSubject |-> "S1", emailBody |-> "B1", whatsappBody |-> "W1"]}

\* how a generateContent call for a draft ends
GenerationOutcomes ==
    {[kind |-> "throws"], [kind |-> "notext"], [kind |-> "badjson"]}
    \cup {[kind |-> "ok", data |-> d] : d \in ResponseData}

VARIABLES
    customers,          \* rendered: the working set, Seq(Customer)
    generatedMessages,  \* rendered: the Draft Record Store, id -> message
    context,            \* rendered: the GenerationContext
    savedItems,         \* rendered: the archive, Seq([customer, message])
    status,             \* rendered: [stage, loading, error]
    analyzingIds,       \* rendered: ids with the generation indicator on
    queued,             \* customers, generatedMessages, status and
                        \* analyzingIds after the enqueued updates
    requests,           \* bag of generateDraft calls in flight
    extractions,        \* bag of extraction calls in flight
    runs,               \* Generate All runs in progress, run id -> run
    ingests,            \* extraction calls started so far
    issued,             \* generateDraft calls made so far
    unrendered,         \* continuations whose updates wait for a render
    card,               \* a CustomerCard: its phone and message props and
                        \* what it renders from them
    upload              \* the state of the FileUpload component

vars == <<customers, generatedMessages, context, savedItems, status,
          analyzingIds, queued, requests, extractions, runs, ingests,
          issued, unrendered, card, upload>>

\* the seven fields of a ColumnMapping
MappingFields ==
    {"company", "representative", "phone", "email", "country", "website",
     "notes"}

\* no generatedMessage prop
NoMessage == [type |-> "undefined"]

\* a card for a customer without a phone and without a draft, not rendered
NoCard == [phone |-> "", message |-> NoMessage, rendered |-> FALSE,
           phoneNumbers |-> <<>>, links |-> <<>>]

\* FileUpload after its first render: no spreadsheet, an empty mapping
NoUpload ==
    [excelHeaders |-> <<>>, excelData |-> <<>>,
     mapping |-> [f \in MappingFields |-> ""],
     showMapping |-> FALSE, loaded |-> <<>>, threw |-> FALSE]

(***************************************************************************)
(* Helpers                                                                 *)
(***************************************************************************)
idsOf(cs) == {cs[k].id : k \in 1..Len(cs)}

savedIds(items) == {items[k].customer.id : k \in 1..Len(items)}

\* the status object of the three setStatus calls
Status(stage, loading, error) ==
    [stage |-> stage, loading |-> loading, error |-> error]

\* a store that merges the new message into the one it holds:
\* { ...prev, [id]: { ...prev[id], ...message } }
setDraft_merging(prev, id, message) ==
    [k \in (DOMAIN prev) \cup {id} |->
        IF k # id THEN prev[k]
        ELSE IF id \notin DOMAIN prev THEN message
        ELSE [f \in (DOMAIN prev[id]) \cup (DOMAIN message) |->
                IF f \in DOMAIN message THEN message[f] ELSE prev[id][f]]]

\* { ...prev, [id]: message }
setDraft(prev, id, message) ==
    [k \in (DOMAIN prev) \cup {id} |-> IF k = id THEN message ELSE prev[k]]

\* const m = { ...messages }; delete m[id]
deleteDraft(messages, id) ==
    [k \in (DOMAIN messages) \ {id} |-> messages[k]]

\* the state shown after the enqueued updates q are rendered
Flush(q) ==
    /\ queued' = q
    /\ customers' = q.customers
    /\ generatedMessages' = q.generatedMessages
    /\ status' = q.status
    /\ analyzingIds' = q.analyzingIds
    /\ unrendered' = 0

\* App after its first render
InitApp ==
    /\ customers = <<>>
    /\ generatedMessages = <<>>
    /\ context = DefaultContext
    /\ savedItems = <<>>
    /\ status = Status("idle", FALSE, NoError)
    /\ analyzingIds = {}
    /\ queued = [customers |-> <<>>, generatedMessages |-> <<>>,
                 status |-> Status("idle", FALSE, NoError),
                 analyzingIds |-> {}]
    /\ requests = EmptyBag
    /\ extractions = EmptyBag
    /\ runs = <<>>
    /\ ingests = 0
    /\ issued = 0
    /\ unrendered = 0

Init ==
    /\ InitApp
    /\ card = NoCard
    /\ upload = NoUpload

(***************************************************************************)
(* React renders the enqueued updates                                      *)
(***************************************************************************)
Render ==
    /\ unrendered > 0
    /\ Flush(queued)
    /\ UNCHANGED <<card, upload, context, savedItems, requests, extractions, runs, ingests, issued>>

(***************************************************************************)
(* Ingestion: services/geminiService.ts and App.handleImageSelected /      *)
(* App.handleTextSelected                                                  *)
(***************************************************************************)
\* the Date.now() readings of one parsedData.map(...): one per record, read
\* one after the other
Stamps(n) ==
    {s \in [1..n -> Times] : \A k \in 1..(n - 1) : s[k] <= s[k + 1]}

\* how a generateContent call for an extraction ends; "ok" carries the
\* readings of Date.now() for the records of the parsed array
ExtractionOutcomes ==
    {[kind |-> "throws"], [kind |-> "notext"], [kind |-> "badjson"]}
    \cup {[kind |-> "ok", stamps |-> s] :
            s \in UNION {Stamps(n) : n \in 0..MaxRecords}}

ExtractFailure(source) ==
    IF source = "img" THEN "Failed to extract data from image."
    ELSE "Failed to parse text data."

NothingExtracted(source) ==
    IF source = "img" THEN "No data found in image. Please try a clearer image."
    ELSE "Could not identify customer data in the pasted text."

\* extractDataFromImage / extractDataFromText: the promise's settlement
extractData(source, outcome) ==
    CASE outcome.kind = "ok" ->
            [threw |-> FALSE,
             value |-> [k \in 1..Len(outcome.stamps) |->
                          Customer(<<source, outcome.stamps[k], k - 1>>)]]
      [] outcome.kind = "notext" ->
            [threw |-> FALSE, value |-> <<>>]
      [] OTHER ->
            [threw |-> TRUE, message |-> ExtractFailure(source)]

\* a continuation without the length check: an empty result is accepted
extractionSettled_acceptingEmpty(q, source, result) ==
    IF result.threw
    THEN [q EXCEPT !.status = Status("idle", FALSE, result.message)]
    ELSE [q EXCEPT !.customers = result.value,
                   !.status = Status("reviewing", FALSE, NoError)]

\* the part of handleImageSelected / handleTextSelected after the await
extractionSettled(q, source, result) ==
    IF result.threw
    THEN [q EXCEPT !.status = Status("idle", FALSE, result.message)]
    ELSE IF Len(result.value) = 0
    THEN [q EXCEPT !.status = Status("idle", FALSE, NothingExtracted(source))]
    ELSE [q EXCEPT !.customers = result.value,
                   !.status = Status("reviewing", FALSE, NoError)]

\* FileUpload is rendered in stage idle or extracting, when not loading
FileUploadShown ==
    /\ status.stage \in {"idle", "extracting"}
    /\ ~status.loading

\* FileReader.onloadend calls onImageSelected: not a React event, the
\* setStatus is rendered later
handleImageSelected ==
    /\ FileUploadShown
    /\ ingests' = ingests + 1
    /\ queued' = [queued EXCEPT !.status = Status("extracting", TRUE, NoError)]
    /\ extractions' = extractions (+) SetToBag({"img"})
    /\ unrendered' = unrendered + 1
    /\ UNCHANGED <<card, upload, customers, generatedMessages, context, savedItems, status,
                   analyzingIds, requests, runs, issued>>

\* the Process Text button calls onTextSelected
handleTextSelected ==
    /\ FileUploadShown
    /\ ingests' = ingests + 1
    /\ Flush([queued EXCEPT !.status = Status("extracting", TRUE, NoError)])
    /\ extractions' = extractions (+) SetToBag({"txt"})
    /\ UNCHANGED <<card, upload, context, savedItems, requests, runs, issued>>

ExtractionResponse(source, outcome) ==
    /\ BagIn(source, extractions)
    /\ extractions' = extractions (-) SetToBag({source})
    /\ queued' = extractionSettled(queued, source, extractData(source, outcome))
    /\ unrendered' = unrendered + 1
    /\ UNCHANGED <<card, upload, customers, generatedMessages, context, savedItems, status,
                   analyzingIds, requests, runs, ingests, issued>>

(***************************************************************************)
(* Draft generation: services/geminiService.ts generateDraft and           *)
(* App.handleGenerateDraft / App.handleGenerateAll                         *)
(***************************************************************************)
Fallback ==
    [subject |-> "Follow up", body |-> "Error generating draft.",
     type |-> "email"]

\* the message built from the parsed response text
Drafted(data) ==
    [subject |-> data.emailSubject, body |-> data.emailBody,
     type |-> "email", whatsappBody |-> data.whatsappBody]

Messages == {Fallback} \cup {Drafted(d) : d \in ResponseData}

\* a generateDraft without its catch block: a failure rejects the promise
generateDraft_rethrowing(outcome) ==
    IF outcome.kind = "ok"
    THEN [threw |-> FALSE, value |-> Drafted(outcome.data)]
    ELSE [threw |-> TRUE]

\* generateDraft: the settlement of the promise it returns.  A rejected
\* generateContent, an empty response.text ("No response generated") and a
\* JSON.parse error all end in the catch block.
generateDraft(outcome) ==
    IF outcome.kind = "ok"
    THEN [threw |-> FALSE, value |-> Drafted(outcome.data)]
    ELSE [threw |-> FALSE, value |-> Fallback]

\* a generateDraft call in flight: the arguments it was called with, the
\* Generate All run that awaits it (0: a customer card) and its position in
\* that run's toProcess
Request(customer, ctx, language, run, pos) ==
    [customer |-> customer, context |-> ctx, language |-> language,
     run |-> run, pos |-> pos]

\* handleGenerateDraft up to its await: the indicator is switched on
generateStarted(q, customer) ==
    [q EXCEPT !.analyzingIds = @ \cup {customer.id}]

\* a handleGenerateDraft that puts the customer of the response back into
\* the working set when it is no longer there
generateSettled_restoring(q, customer, result) ==
    LET stored == IF result.threw
                  THEN q.generatedMessages
                  ELSE setDraft(q.generatedMessages, customer.id, result.value)
    IN  [q EXCEPT !.generatedMessages = stored,
                  !.analyzingIds = @ \ {customer.id},
                  !.customers = IF customer.id \in idsOf(@) THEN @
                                ELSE Append(@, customer)]

\* handleGenerateDraft after its await: try / catch / finally
generateSettled(q, customer, result) ==
    LET stored == IF result.threw
                  THEN q.generatedMessages
                  ELSE setDraft(q.generatedMessages, customer.id, result.value)
    IN  [q EXCEPT !.generatedMessages = stored,
                  !.analyzingIds = @ \ {customer.id}]

\* a customer card calls onGenerate: Generate Draft, Regenerate (both
\* disabled while isGenerating) or handleLangSwitch (returns while
\* isGenerating); the closure is the handleGenerateDraft of the last render
handleGenerateDraft(customer, language) ==
    /\ status.stage = "reviewing"
    /\ \E k \in 1..Len(customers) : customers[k] = customer
    /\ customer.id \notin analyzingIds
    /\ Flush(generateStarted(queued, customer))
    /\ requests' = requests (+) SetToBag({Request(customer, context, language, 0, 0)})
    /\ issued' = issued + 1
    /\ UNCHANGED <<card, upload, context, savedItems, extractions, runs, ingests>>

Min(a, b) == IF a < b THEN a ELSE b

\* toProcess.slice(i, i + BATCH_SIZE), as positions of toProcess
batchPositions(toProcess, i) ==
    (i + 1)..Min(i + BATCH_SIZE, Len(toProcess))

\* batch.map(c => handleGenerateDraft(c, 'en')) of run r, with the
\* handleGenerateDraft (and so the context) the run's closure holds
batchRequests(r, run, i) ==
    {Request(run.toProcess[k], run.context, "en", r, k - 1) :
        k \in batchPositions(run.toProcess, i)}

RECURSIVE batchStarted(_, _, _)
batchStarted(q, toProcess, positions) ==
    IF positions = {} THEN q
    ELSE LET k == CHOOSE x \in positions : \A y \in positions : x <= y
         IN  batchStarted(generateStarted(q, toProcess[k]), toProcess,
                          positions \ {k})

\* a run over every customer of the working set: no filter
toProcessOf_all(cs, messages) == cs

\* customers.filter(c => !generatedMessages[c.id])
toProcessOf(cs, messages) ==
    SelectSeq(cs, LAMBDA c : c.id \notin DOMAIN messages)

\* the run id of the next Generate All click
FreeRun ==
    CHOOSE r \in 1..(Cardinality(DOMAIN runs) + 1) : r \notin DOMAIN runs

\* the Generate All button, shown in stage reviewing
handleGenerateAll ==
    /\ status.stage = "reviewing"
    /\ LET toProcess == toProcessOf(customers, generatedMessages)
           run == [toProcess |-> toProcess, i |-> 0, context |-> context,
                   awaiting |-> Cardinality(batchPositions(toProcess, 0))]
       IN  IF Len(toProcess) = 0
           THEN UNCHANGED vars
           ELSE /\ runs' = [r \in (DOMAIN runs) \cup {FreeRun} |->
                              IF r = FreeRun THEN run ELSE runs[r]]
                /\ requests' = requests (+) SetToBag(batchRequests(FreeRun, run, 0))
                /\ Flush(batchStarted(queued, toProcess,
                                      batchPositions(toProcess, 0)))
                /\ issued' = issued + Cardinality(batchPositions(toProcess, 0))
                /\ UNCHANGED <<card, upload, context, savedItems, extractions, ingests>>

\* a loop that goes on as soon as one call of the batch has ended
\* (Promise.race in place of Promise.all)
batchDone_first(awaiting) == TRUE

\* await Promise.all(batch...) resumes when none of the batch is pending
batchDone(awaiting) == awaiting = 0

\* a generateContent call for a draft ends: handleGenerateDraft resumes and,
\* when it was the last of its batch, handleGenerateAll resumes too and
\* starts the next batch, or returns
GenerateDraftResponse(req, outcome) ==
    /\ BagIn(req, requests)
    /\ unrendered' = unrendered + 1
    /\ LET q1 == generateSettled(queued, req.customer, generateDraft(outcome))
           left == requests (-) SetToBag({req})
       IN  IF req.run = 0
           THEN /\ queued' = q1
                /\ requests' = left
                /\ UNCHANGED <<runs, issued>>
           ELSE LET run == runs[req.run]
                    awaiting == run.awaiting - 1
                    i == run.i + BATCH_SIZE
                    next == batchPositions(run.toProcess, i)
                IN  IF ~batchDone(awaiting)
                    THEN /\ queued' = q1
                         /\ requests' = left
                         /\ runs' = [runs EXCEPT ![req.run].awaiting = awaiting]
                         /\ UNCHANGED issued
                    ELSE IF i < Len(run.toProcess)
                    THEN /\ queued' = batchStarted(q1, run.toProcess, next)
                         /\ requests' = left (+) SetToBag(batchRequests(req.run, run, i))
                         /\ runs' = [runs EXCEPT ![req.run].i = i,
                                                 ![req.run].awaiting = Cardinality(next)]
                         /\ issued' = issued + Cardinality(next)
                    ELSE /\ queued' = q1
                         /\ requests' = left
                         /\ runs' = [r \in (DOMAIN runs) \ {req.run} |-> runs[r]]
                         /\ UNCHANGED issued
    /\ UNCHANGED <<card, upload, customers, generatedMessages, context, savedItems, status,
                   analyzingIds, extractions, ingests>>

(***************************************************************************)
(* Delete, archive, archive removal, Start Over, campaign settings         *)
(***************************************************************************)
\* the updates handleDelete enqueues: a functional update of customers and,
\* when the rendered store has a draft for id, the rendered store without it
deleted(q, id) ==
    LET q1 == [q EXCEPT !.customers = SelectSeq(@, LAMBDA c : c.id # id)]
    IN  IF id \in DOMAIN generatedMessages
        THEN [q1 EXCEPT !.generatedMessages = deleteDraft(generatedMessages, id)]
        ELSE q1

handleDelete(id) ==
    /\ Flush(deleted(queued, id))
    /\ UNCHANGED <<card, upload, context, savedItems, requests, extractions, runs, ingests, issued>>

\* customers.find(c => c.id === id): the position of the first match, 0 if none
find(cs, id) ==
    IF id \in idsOf(cs)
    THEN CHOOSE k \in 1..Len(cs) :
            /\ cs[k].id = id
            /\ \A j \in 1..(k - 1) : cs[j].id # id
    ELSE 0

\* if (customer && message)
canSave(id) ==
    /\ find(customers, id) # 0
    /\ id \in DOMAIN generatedMessages

\* a handleSave that calls handleDelete outside its if
handleSave_alwaysDeleting(id) ==
    /\ savedItems' = IF canSave(id)
                     THEN Append(savedItems,
                             [customer |-> customers[find(customers, id)],
                              message |-> generatedMessages[id]])
                     ELSE savedItems
    /\ Flush(deleted(queued, id))
    /\ UNCHANGED <<card, upload, context, requests, extractions, runs, ingests, issued>>

handleSave(id) ==
    IF canSave(id)
    THEN /\ savedItems' = Append(savedItems,
                             [customer |-> customers[find(customers, id)],
                              message |-> generatedMessages[id]])
         /\ Flush(deleted(queued, id))
         /\ UNCHANGED <<card, upload, context, requests, extractions, runs, ingests, issued>>
    ELSE UNCHANGED vars

handleDeleteSaved(id) ==
    /\ savedItems' = SelectSeq(savedItems, LAMBDA item : item.customer.id # id)
    /\ Flush(queued)
    /\ UNCHANGED <<card, upload, context, requests, extractions, runs, ingests, issued>>

\* a Start Over that empties the archive as well: setSavedItems([])
StartOver_clearingArchive ==
    /\ status.stage = "reviewing"
    /\ savedItems' = <<>>
    /\ Flush([queued EXCEPT !.customers = <<>>,
                            !.generatedMessages = <<>>,
                            !.status = Status("idle", FALSE, NoError)])
    /\ UNCHANGED <<card, upload, context, requests, extractions, runs, ingests, issued>>

\* the Start Over button, shown in stage reviewing
StartOver ==
    /\ status.stage = "reviewing"
    /\ Flush([queued EXCEPT !.customers = <<>>,
                            !.generatedMessages = <<>>,
                            !.status = Status("idle", FALSE, NoError)])
    /\ UNCHANGED <<card, upload, context, savedItems, requests, extractions, runs, ingests, issued>>

\* onChange of a campaign setting: setContext(prev => ({...prev, [field]: value}))
setContext(field, value) ==
    /\ context[field] # value
    /\ context' = [context EXCEPT ![field] = value]
    /\ Flush(queued)
    /\ UNCHANGED <<card, upload, savedItems, requests, extractions, runs, ingests, issued>>

\* the ids a handler is called with: every id the state mentions, and one
\* it does not mention
Mentioned ==
    idsOf(customers) \cup idsOf(queued.customers)
    \cup DOMAIN generatedMessages \cup DOMAIN queued.generatedMessages
    \cup savedIds(savedItems)
    \cup {req.customer.id : req \in BagToSet(requests)}

Targets ==
    Mentioned \cup
    (IF Ids \subseteq Mentioned THEN {}
     ELSE {CHOOSE id \in Ids : id \notin Mentioned})

Next ==
    \/ Render
    \/ (ingests < MaxIngests /\ unrendered < MaxQueued /\ handleImageSelected)
    \/ (ingests < MaxIngests /\ handleTextSelected)
    \/ \E source \in Sources, outcome \in ExtractionOutcomes :
          (unrendered < MaxQueued /\ ExtractionResponse(source, outcome))
    \/ \E id \in Targets, language \in Languages :
          /\ BagCardinality(requests) < MaxInFlight
          /\ issued < MaxIssued
          /\ handleGenerateDraft(Customer(id), language)
    \/ /\ Cardinality(DOMAIN runs) < MaxRuns
       /\ BagCardinality(requests) < MaxInFlight
       /\ issued + Len(toProcessOf(customers, generatedMessages)) <= MaxIssued
       /\ handleGenerateAll
    \/ \E req \in BagToSet(requests), outcome \in GenerationOutcomes :
          (unrendered < MaxQueued /\ GenerateDraftResponse(req, outcome))
    \/ \E id \in Targets : handleDelete(id)
    \/ \E id \in Targets : (Len(savedItems) < MaxSaved /\ handleSave(id))
    \/ \E id \in Targets : handleDeleteSaved(id)
    \/ StartOver

Spec == Init /\ [][Next]_vars

(***************************************************************************)
(* Strings: a JavaScript string is a TLA+ string; Len, \o and SubSeq are   *)
(* length, + and substring                                                 *)
(***************************************************************************)
\* s.charAt(i - 1)
charAt(s, i) == SubSeq(s, i, i)

\* s.substring(n)
substring(s, n) == SubSeq(s, n + 1, Len(s))

\* s.startsWith(prefix)
startsWith(s, prefix) ==
    /\ Len(s) >= Len(prefix)
    /\ SubSeq(s, 1, Len(prefix)) = prefix

\* s.indexOf(part) + 1: the first position where part occurs, 0 if none
indexOf(s, part) ==
    LET at == {i \in 1..(Len(s) - Len(part) + 1) :
                  SubSeq(s, i, i + Len(part) - 1) = part}
    IN  IF at = {} THEN 0 ELSE CHOOSE i \in at : \A j \in at : i <= j

\* s.includes(part)
includes(s, part) == indexOf(s, part) # 0

DigitChars == {"0", "1", "2", "3", "4", "5", "6", "7", "8", "9"}

\* the characters String.prototype.trim removes that the inputs have
WhiteSpace == {" ", "\t", "\n", "\r"}

\* the characters of the class [,/&\n|]
Delimiters == {",", "/", "&", "\n", "|"}

\* s.replace(/[^...]/g, ''): the characters of s that are in keep
RECURSIVE keepChars(_, _)
keepChars(s, keep) ==
    IF Len(s) = 0 THEN ""
    ELSE (IF charAt(s, 1) \in keep THEN charAt(s, 1) ELSE "")
         \o keepChars(substring(s, 1), keep)

\* s.replace(c, by) with a string pattern: the first occurrence only
replaceFirst(s, c, by) ==
    LET i == indexOf(s, c)
    IN  IF i = 0 THEN s
        ELSE SubSeq(s, 1, i - 1) \o by \o substring(s, i + Len(c) - 1)

RECURSIVE trimStart(_)
trimStart(s) ==
    IF Len(s) > 0 /\ charAt(s, 1) \in WhiteSpace
    THEN trimStart(substring(s, 1)) ELSE s

RECURSIVE trimEnd(_)
trimEnd(s) ==
    IF Len(s) > 0 /\ charAt(s, Len(s)) \in WhiteSpace
    THEN trimEnd(SubSeq(s, 1, Len(s) - 1)) ELSE s

\* s.trim()
trim(s) == trimEnd(trimStart(s))

\* s.split(/[...]+/) from position i on, cur being the piece read so far
\* and inRun telling that the character before i belongs to a separator
RECURSIVE splitFrom(_, _, _, _, _)
splitFrom(s, separators, i, cur, inRun) ==
    IF i > Len(s) THEN <<cur>>
    ELSE IF charAt(s, i) \in separators
    THEN IF inRun THEN splitFrom(s, separators, i + 1, cur, TRUE)
         ELSE <<cur>> \o splitFrom(s, separators, i + 1, "", TRUE)
    ELSE splitFrom(s, separators, i + 1, cur \o charAt(s, i), FALSE)

split(s, separators) == splitFrom(s, separators, 1, "", FALSE)

(***************************************************************************)
(* components/CustomerCard.tsx: phone numbers and WhatsApp links           *)
(***************************************************************************)
\* the characters encodeURIComponent leaves as they are, among those the
\* message bodies have
Unreserved ==
    DigitChars \cup {"a", "b", "H", "i", "o", "x", "-", "_", ".", "!", "~", "*"}

\* the UTF-8 percent codes of the other characters the bodies have
PercentCode ==
    [c \in {" ", "&", "\n", "+", "#", "%", "?", "=", ",", "/"} |->
        CASE c = " " -> "%20" [] c = "&" -> "%26" [] c = "\n" -> "%0A"
          [] c = "+" -> "%2B" [] c = "#" -> "%23" [] c = "%" -> "%25"
          [] c = "?" -> "%3F" [] c = "=" -> "%3D" [] c = "," -> "%2C"
          [] c = "/" -> "%2F"]

RECURSIVE encodeURIComponent(_)
encodeURIComponent(s) ==
    IF Len(s) = 0 THEN ""
    ELSE (IF charAt(s, 1) \in Unreserved THEN charAt(s, 1)
          ELSE PercentCode[charAt(s, 1)])
         \o encodeURIComponent(substring(s, 1))

LinkTypes == {"web", "app", "business"}

\* a filter that keeps the pieces of length 3: s.length >= 3
phoneNumbers_keepingThree(raw) ==
    IF raw = "" THEN <<>>
    ELSE SelectSeq([k \in 1..Len(split(raw, Delimiters)) |->
                      trim(split(raw, Delimiters)[k])],
                   LAMBDA piece : Len(piece) >= 3)

\* phoneNumbers: customer.phone split, trimmed and filtered
phoneNumbers(raw) ==
    IF raw = "" THEN <<>>
    ELSE SelectSeq([k \in 1..Len(split(raw, Delimiters)) |->
                      trim(split(raw, Delimiters)[k])],
                   LAMBDA piece : Len(piece) > 3)

\* let cleanPhone of getWhatsappLink, after the two if branches
cleanPhone(phone) ==
    LET kept == keepChars(phone, DigitChars \cup {"+"})
    IN  IF startsWith(kept, "00") THEN "+" \o substring(kept, 2)
        ELSE IF ~startsWith(kept, "+") THEN "+" \o kept
        ELSE kept

\* const phoneForUrl
phoneForUrl(phone) == replaceFirst(cleanPhone(phone), "+", "")

\* generatedMessage.whatsappBody || generatedMessage.body
bodyToUse(message) ==
    IF "whatsappBody" \in DOMAIN message /\ message.whatsappBody # ""
    THEN message.whatsappBody ELSE message.body

getWhatsappLink(phone, type, message) ==
    IF message = NoMessage \/ phone = "" THEN "#"
    ELSE LET text == encodeURIComponent(bodyToUse(message))
         IN  CASE type = "business" ->
                    "intent://send?phone=" \o phoneForUrl(phone) \o "&text="
                    \o text
                    \o "#Intent;package=com.whatsapp.w4b;scheme=whatsapp;end"
               [] type = "app" ->
                    "whatsapp://send?phone=" \o phoneForUrl(phone)
                    \o "&text=" \o text
               [] OTHER ->
                    "https://wa.me/" \o phoneForUrl(phone) \o "?text=" \o text

\* the links a card renders: for every phone number, one per variant
linksOf(numbers, message) ==
    [k \in 1..Len(numbers) |->
        [type \in LinkTypes |-> getWhatsappLink(numbers[k], type, message)]]

\* CustomerCard renders with the props customer (its phone) and
\* generatedMessage
renderCard(message) ==
    /\ ~card.rendered \/ message # card.message
    /\ card' = [card EXCEPT
                  !.message = message,
                  !.rendered = TRUE,
                  !.phoneNumbers = phoneNumbers(card.phone),
                  !.links = linksOf(phoneNumbers(card.phone), message)]
    /\ UNCHANGED <<customers, generatedMessages, context, savedItems, status,
                   analyzingIds, queued, requests, extractions, runs, ingests,
                   issued, unrendered, upload>>

\* the characters of the phone strings of every form
PhoneChars == {"0", "1", "+", " ", ","}

\* the parts of the longer phone strings: empty, too short once trimmed, a
\* number, a number with a + inside
PhoneParts == {"", " 123 ", "+1234", "1+234"}

RECURSIVE Strings(_, _)
Strings(chars, n) ==
    IF n = 0 THEN {""}
    ELSE LET shorter == Strings(chars, n - 1)
         IN  shorter \cup {s \o c : s \in shorter, c \in chars}

RECURSIVE Joined(_)
Joined(n) ==
    IF n <= 1 THEN PhoneParts
    ELSE LET fewer == Joined(n - 1)
         IN  fewer \cup {s \o d \o part :
                           s \in fewer, d \in Delimiters, part \in PhoneParts}

\* the values of customer.phone
Phones == Strings(PhoneChars, MaxPhoneLen) \cup Joined(MaxPieces)

\* the values of the generatedMessage prop
CardMessages ==
    {NoMessage,
     [subject |-> "S", body |-> "Hi a&b", type |-> "email"],
     [subject |-> "S", body |-> "Hi a&b", type |-> "email",
      whatsappBody |-> "Ho!\n50% x=1?"],
     [subject |-> "S", body |-> "Hi a&b", type |-> "email",
      whatsappBody |-> ""]}

InitCard ==
    /\ InitApp
    /\ upload = NoUpload
    /\ \E phone \in Phones : card = [NoCard EXCEPT !.phone = phone]

NextCard ==
    \E message \in CardMessages : renderCard(message)

SpecCard == InitCard /\ [][NextCard]_vars

(***************************************************************************)
(* components/FileUpload.tsx: the spreadsheet tab                          *)
(***************************************************************************)
UpperCase == "ABCDEFGHIJKLMNOPQRSTUVWXYZ"
LowerCase == "abcdefghijklmnopqrstuvwxyz"

\* the lower case letter of each upper case letter
Lower ==
    [c \in {charAt(UpperCase, i) : i \in 1..Len(UpperCase)} |->
        charAt(LowerCase, indexOf(UpperCase, c))]

\* s.toLowerCase()
RECURSIVE toLowerCase(_)
toLowerCase(s) ==
    IF Len(s) = 0 THEN ""
    ELSE (IF charAt(s, 1) \in DOMAIN Lower THEN Lower[charAt(s, 1)]
          ELSE charAt(s, 1))
         \o toLowerCase(substring(s, 1))

\* U+0131 (dotless i), which a TLA+ string cannot hold: a character no
\* header has
DotlessI == "^"

\* the keyword lists of autoMapColumns, in the order of the calls
Keywords ==
    [company |-> <<"firm", "company", "name", "business">>,
     representative |-> <<"rep", "contact", "person", "mr", "mrs", "name">>,
     phone |-> <<"tel", "phone", "mobile", "cel">>,
     email |-> <<"mail", "e-mail">>,
     country |-> <<"country", "address", "city", "location">>,
     website |-> <<"web", "site", "url">>,
     notes |-> <<"note", "desc", "comment", "product", "interest",
                 "aç" \o DotlessI \o "klama">>]

\* keywords.some(k => h.includes(k))
someKeyword(h, keywords) ==
    \E k \in 1..Len(keywords) : includes(h, keywords[k])

\* the cells of a sheet as sheet_to_json gives them: a string, a number, or
\* nothing at all for a blank cell (a hole of the row's array, read as
\* undefined)
Text(s) == [text |-> s]
Number(n) == [number |-> n]
Absent == [absent |-> TRUE]

Digits == "0123456789"

\* n.toString() of a natural number
RECURSIVE numberToString(_)
numberToString(n) ==
    IF n < 10 THEN charAt(Digits, n + 1)
    ELSE numberToString(n \div 10) \o charAt(Digits, (n % 10) + 1)

\* cell.toString() of a cell that is there
toString(cell) ==
    IF "text" \in DOMAIN cell THEN cell.text ELSE numberToString(cell.number)

\* what JavaScript takes for false in cell || ""
falsy(cell) == cell = Absent \/ cell = Text("") \/ cell = Number(0)

\* what a call gives that throws a TypeError
TypeError == [threw |-> "TypeError"]

\* lowerHeaders.findIndex(...) + 1 from position i on, 0 if none: findIndex
\* visits the holes too, and h.includes of undefined throws
RECURSIVE findIndexFrom(_, _, _)
findIndexFrom(lowerHeaders, keywords, i) ==
    IF i > Len(lowerHeaders) THEN 0
    ELSE IF lowerHeaders[i] = Absent THEN -1
    ELSE IF someKeyword(lowerHeaders[i].text, keywords) THEN i
    ELSE findIndexFrom(lowerHeaders, keywords, i + 1)

\* headers.map(h => h.toString().toLowerCase()): map leaves the holes
lowerCased(headers) ==
    [i \in 1..Len(headers) |->
        IF headers[i] = Absent THEN Absent
        ELSE Text(toLowerCase(toString(headers[i])))]

\* findMatch: the header as a cell, Text("") for none, or TypeError
findMatch(headers, lowerHeaders, keywords) ==
    LET index == findIndexFrom(lowerHeaders, keywords, 1)
    IN  IF index = -1 THEN TypeError
        ELSE IF index # 0 THEN headers[index] ELSE Text("")

\* the seven calls of findMatch
matches(headers) ==
    LET lowerHeaders == lowerCased(headers)
    IN  [field \in DOMAIN Keywords |->
            findMatch(headers, lowerHeaders, Keywords[field])]

\* autoMapColumns throws: one of the calls of findMatch does, and
\* setMapping is not reached
autoMapThrows(headers) ==
    LET found == matches(headers)
    IN  \E field \in DOMAIN found : found[field] = TypeError

\* autoMapColumns: the mapping afterwards.  newMapping is a copy of
\* mapping whose seven fields are all assigned; when a call of findMatch
\* throws the mapping stays as it was
autoMapColumns(headers, mapping) ==
    LET found == matches(headers)
    IN  IF \E field \in DOMAIN found : found[field] = TypeError THEN mapping
        ELSE [field \in MappingFields |->
                IF field \in DOMAIN found THEN toString(found[field])
                ELSE mapping[field]]

\* excelHeaders.indexOf(headerName) + 1
headerIndex(headers, headerName) ==
    LET at == {i \in 1..Len(headers) : headers[i] = Text(headerName)}
    IN  IF at = {} THEN 0 ELSE CHOOSE i \in at : \A j \in at : i <= j

\* row[colIndex]: undefined beyond the end of the row and at a hole
cellAt(row, colIndex) == IF colIndex > Len(row) THEN Absent ELSE row[colIndex]

\* getVal of processExcelData for one row
getVal(headers, row, headerName) ==
    IF headerName = "" THEN ""
    ELSE LET colIndex == headerIndex(headers, headerName)
         IN  IF colIndex = 0 THEN ""
             ELSE LET cell == cellAt(row, colIndex)
                  IN  trim(toString(IF falsy(cell) THEN Text("") ELSE cell))

\* the customer processExcelData makes of the row at index, Date.now()
\* reading time
excelCustomer(headers, mapping, row, time, index) ==
    [id |-> <<"xls", time, index>>,
     company |-> getVal(headers, row, mapping.company),
     representative |-> getVal(headers, row, mapping.representative),
     phone |-> getVal(headers, row, mapping.phone),
     email |-> getVal(headers, row, mapping.email),
     country |-> getVal(headers, row, mapping.country),
     website |-> getVal(headers, row, mapping.website),
     notes |-> getVal(headers, row, mapping.notes)]

\* a filter that looks at every field of the record
validCustomers_anyField(headers, mapping, rows, stamps) ==
    SelectSeq([k \in 1..Len(rows) |->
                 excelCustomer(headers, mapping, rows[k], stamps[k], k - 1)],
              LAMBDA c : \E field \in MappingFields : c[field] # "")

\* const validCustomers
validCustomers(headers, mapping, rows, stamps) ==
    SelectSeq([k \in 1..Len(rows) |->
                 excelCustomer(headers, mapping, rows[k], stamps[k], k - 1)],
              LAMBDA c : c.company # "" \/ c.phone # "" \/ c.email # "")

\* the file input of the spreadsheet tab is shown without a mapping panel
\* handleExcelChange: jsonData is the sheet as rows of cells, the header
\* row first
handleExcelChange(jsonData) ==
    /\ ~upload.showMapping
    /\ IF Len(jsonData) > 0
       THEN /\ upload' = [upload EXCEPT
                            !.excelHeaders = Head(jsonData),
                            !.excelData = Tail(jsonData),
                            !.showMapping = TRUE,
                            !.mapping = autoMapColumns(Head(jsonData), @),
                            !.loaded = <<>>,
                            !.threw = autoMapThrows(Head(jsonData))]
            /\ UNCHANGED <<customers, generatedMessages, context, savedItems,
                           status, analyzingIds, queued, requests, extractions,
                           runs, ingests, issued, unrendered, card>>
       ELSE UNCHANGED vars

\* the Remove File button of the mapping panel
removeFile ==
    /\ upload.showMapping
    /\ upload' = [upload EXCEPT !.showMapping = FALSE, !.excelData = <<>>,
                                !.loaded = <<>>, !.threw = FALSE]
    /\ UNCHANGED <<customers, generatedMessages, context, savedItems, status,
                   analyzingIds, queued, requests, extractions, runs, ingests,
                   issued, unrendered, card>>

\* a select of the mapping panel: its options are "" and the headers
setMapping(field, value) ==
    /\ upload.showMapping
    /\ value = "" \/ \E i \in 1..Len(upload.excelHeaders) :
                        upload.excelHeaders[i] = Text(value)
    /\ upload.mapping[field] # value
    /\ upload' = [upload EXCEPT !.mapping[field] = value,
                                !.loaded = <<>>, !.threw = FALSE]
    /\ UNCHANGED <<customers, generatedMessages, context, savedItems, status,
                   analyzingIds, queued, requests, extractions, runs, ingests,
                   issued, unrendered, card>>

\* the Process Rows button: processExcelData ends by calling the prop
\* onCustomersLoaded, which App does not pass: the call throws after
\* validCustomers is computed.  loaded and threw tell what the last step
\* did: the argument of its call of onCustomersLoaded, and that it threw.
processExcelData(stamps) ==
    /\ upload.showMapping
    /\ upload' = [upload EXCEPT
                    !.loaded = validCustomers(upload.excelHeaders,
                                  upload.mapping, upload.excelData, stamps),
                    !.threw = TRUE]
    /\ UNCHANGED <<customers, generatedMessages, context, savedItems, status,
                   analyzingIds, queued, requests, extractions, runs, ingests,
                   issued, unrendered, card>>

\* the header cells of the spreadsheets
HeaderWords == {"Firma", "Company Name"}

\* the sequences of at most n members of S
Seqs(S, n) == UNION {[1..k -> S] : k \in 0..n}

ScenarioHeaders == <<Text("Firma"), Text("Temsilci"), Text("Tel"), Text("Adres")>>
ScenarioRow ==
    <<Text("CompanyA"), Text("John Doe"), Text("+1234,+5678"), Text("USA")>>

\* the header rows: a row of sheet_to_json ends with a cell that is there
HeaderRows ==
    {headers \in Seqs({Text(word) : word \in HeaderWords} \cup {Absent},
                      MaxHeaders) :
        headers = <<>> \/ headers[Len(headers)] # Absent}

\* the data rows: blank text and text to trim, numbers, a blank cell, a
\* row shorter than the header row
DataRows ==
    {<<Text(" "), Text(" B ")>>, <<Number(42), Number(0)>>,
     <<Absent, Text("x")>>, <<Text("A")>>}

\* what XLSX.utils.sheet_to_json(worksheet, {header: 1}) returns
Sheets ==
    {<<>>, <<ScenarioHeaders, ScenarioRow>>}
    \cup {<<headers>> \o rows :
            headers \in HeaderRows, rows \in Seqs(DataRows, MaxRows)}

\* the fields whose select the operator changes
EditFields == {"company", "email"}

\* the fields set to another header than autoMapColumns proposes
mapEdits(headers, mapping) ==
    LET proposed == autoMapColumns(headers, mapping)
    IN  {field \in MappingFields : mapping[field] # proposed[field]}

InitUpload ==
    /\ InitApp
    /\ card = NoCard
    /\ upload = NoUpload

NextUpload ==
    \/ \E jsonData \in Sheets : handleExcelChange(jsonData)
    \/ removeFile
    \/ LET edited == mapEdits(upload.excelHeaders, upload.mapping)
       IN  \E field \in EditFields :
              \E value \in {""} \cup {word \in HeaderWords :
                                        \E i \in 1..Len(upload.excelHeaders) :
                                           upload.excelHeaders[i] = Text(word)} :
                 /\ Cardinality(edited \cup {field}) <= MaxMapEdits
                 /\ setMapping(field, value)
    \/ \E stamps \in Stamps(Len(upload.excelData)) : processExcelData(stamps)

SpecUpload == InitUpload /\ [][NextUpload]_vars

(***************************************************************************)
(* Generate All over a working set of more than one batch: the behaviours  *)
(* that start when the first image extraction has been rendered            *)
(***************************************************************************)
InitBatch ==
    \E n \in 1..BatchRecords :
        LET extracted == extractData("img", [kind |-> "ok",
                                             stamps |-> [k \in 1..n |-> 1]])
            q == extractionSettled(
                    [customers |-> <<>>, generatedMessages |-> <<>>,
                     status |-> Status("extracting", TRUE, NoError),
                     analyzingIds |-> {}],
                    "img", extracted)
        IN  /\ queued = q
            /\ customers = q.customers
            /\ generatedMessages = q.generatedMessages
            /\ status = q.status
            /\ analyzingIds = q.analyzingIds
            /\ context = DefaultContext
            /\ savedItems = <<>>
            /\ requests = EmptyBag
            /\ extractions = EmptyBag
            /\ runs = <<>>
            /\ ingests = 1
            /\ issued = 0
            /\ unrendered = 0
            /\ card = NoCard
            /\ upload = NoUpload

NextBatch ==
    \/ Render
    \/ /\ Cardinality(DOMAIN runs) < MaxRuns
       /\ BagCardinality(requests) < MaxInFlight
       /\ issued + Len(toProcessOf(customers, generatedMessages)) <= BatchIssued
       /\ handleGenerateAll
    \/ \E req \in BagToSet(requests), outcome \in GenerationOutcomes :
          (unrendered < MaxQueued /\ GenerateDraftResponse(req, outcome))
    \/ \E id \in idsOf(customers) : handleDelete(id)
    \/ \E field \in ContextFields : \E value \in Typed(field) :
          /\ Cardinality(Edited(context) \cup {field}) <= MaxEdits
          /\ setContext(field, value)

SpecBatch == InitBatch /\ [][NextBatch]_vars

\* a generateContent call for a draft ends
AnyResponse ==
    \E req \in BagToSet(requests), outcome \in GenerationOutcomes :
        (unrendered < MaxQueued /\ GenerateDraftResponse(req, outcome))

\* Generate All runs with deletions, the context left as it is
NextRun ==
    \/ Render
    \/ /\ Cardinality(DOMAIN runs) < MaxRuns
       /\ BagCardinality(requests) < MaxInFlight
       /\ issued + Len(toProcessOf(customers, generatedMessages)) <= BatchIssued
       /\ handleGenerateAll
    \/ AnyResponse
    \/ \E id \in idsOf(customers) : handleDelete(id)

\* every generation call returns or fails, and React renders what is
\* enqueued
SpecRunFair ==
    /\ InitBatch
    /\ [][NextRun]_vars
    /\ WF_vars(Render)
    /\ WF_vars(AnyResponse)

(***************************************************************************)
(* Generate All and the customer cards together: the cards of the          *)
(* customers whose indicator is off stay enabled during a run              *)
(***************************************************************************)
NextRate ==
    \/ Render
    \/ \E id \in idsOf(customers), language \in Languages :
          /\ BagCardinality(requests) < RateInFlight
          /\ issued < BatchIssued
          /\ handleGenerateDraft(Customer(id), language)
    \/ /\ Cardinality(DOMAIN runs) < MaxRuns
       /\ BagCardinality(requests) < MaxInFlight
       /\ issued + Len(toProcessOf(customers, generatedMessages)) <= BatchIssued
       /\ handleGenerateAll
    \/ AnyResponse

SpecRate == InitBatch /\ [][NextRate]_vars

(***************************************************************************)
(* Generate All when the generateContent call for one customer never       *)
(* returns: generateDraft has no timeout, so its promise stays pending     *)
(***************************************************************************)
\* the customer whose generation call never returns: the first record of
\* the extraction
Hanging == <<"img", 1, 0>>

\* the calls in flight that return
returning(bag) == {req \in BagToSet(bag) : req.customer.id # Hanging}

ReturningResponse ==
    \E req \in returning(requests), outcome \in GenerationOutcomes :
        (unrendered < MaxQueued /\ GenerateDraftResponse(req, outcome))

NextHang ==
    \/ Render
    \/ /\ Cardinality(DOMAIN runs) < MaxRuns
       /\ BagCardinality(requests) < MaxInFlight
       /\ issued + Len(toProcessOf(customers, generatedMessages)) <= BatchIssued
       /\ handleGenerateAll
    \/ ReturningResponse
    \/ \E field \in ContextFields : \E value \in Typed(field) :
          /\ Cardinality(Edited(context) \cup {field}) <= MaxEdits
          /\ setContext(field, value)

\* every call but the one for Hanging returns, and React renders
SpecHang ==
    /\ InitBatch
    /\ [][NextHang]_vars
    /\ WF_vars(Render)
    /\ WF_vars(ReturningResponse)


(***************************************************************************)
(* Properties                                                              *)
(***************************************************************************)
entriesOf(items, id) == {k \in 1..Len(items) : items[k].customer.id = id}

FailedOutcomes == {o \in GenerationOutcomes : o.kind # "ok"}

\* C1: when the working set has a customer with the id and the store a
\* draft for it, handleSave(id) leaves the customer out of the working set,
\* the draft out of the store and exactly one archive entry with this id,
\* holding the draft stored at the call; a second handleSave(id) changes
\* nothing.
C1_ArchiveTransition ==
    [][\A id \in Ids :
          (/\ handleSave(id)
           /\ id \in idsOf(customers)
           /\ id \in DOMAIN generatedMessages)
          => /\ id \notin idsOf(customers')
             /\ id \notin DOMAIN generatedMessages'
             /\ Cardinality(entriesOf(savedItems', id)) = 1
             /\ \A k \in entriesOf(savedItems', id) :
                   savedItems'[k].message = generatedMessages[id]
             /\ ~(canSave(id))']_vars

\* C2: no customer id is in both the working set and the archive, and an
\* archive transition takes the customer from one to the other in one step.
C2_NeverInBothNorNeither ==
    [][/\ idsOf(customers') \cap savedIds(savedItems') = {}
       /\ \A id \in Ids :
            (handleSave(id) /\ id \in idsOf(customers)
                /\ id \in DOMAIN generatedMessages)
            => (id \in savedIds(savedItems') /\ id \notin idsOf(customers'))]_vars

\* the customers of the working set followed by those of the archive
held == customers \o [k \in 1..Len(savedItems) |-> savedItems[k].customer]

\* C3: no two customers of the working set and the archive taken together
\* share an id, whether they come from one ingestion batch or from several.
C3_UniqueIds ==
    \A j, k \in 1..Len(held) : j # k => held[j].id # held[k].id

\* C4: a generation call that fails (throws, no text, unparsable text)
\* stores the fixed fallback for its customer and clears the customer's
\* indicator, and a Generate All run that awaits the call goes on.
C4_FallbackStored ==
    [][\A req \in BagToSet(requests), outcome \in FailedOutcomes :
          GenerateDraftResponse(req, outcome)
          => /\ req.customer.id \in DOMAIN queued'.generatedMessages
             /\ queued'.generatedMessages[req.customer.id] =
                   [subject |-> "Follow up", body |-> "Error generating draft.",
                    type |-> "email"]
             /\ req.customer.id \notin queued'.analyzingIds
             /\ req.run # 0 => runs' # runs]_vars

\* C4 witness: a customer of the working set shows the fallback, indicator off
C4_Witness ==
    \E k \in 1..Len(customers) :
        /\ customers[k].id \in DOMAIN generatedMessages
        /\ generatedMessages[customers[k].id].body = "Error generating draft."
        /\ customers[k].id \notin analyzingIds

\* C5: the response to a call whose customer has left the working set is
\* still written to the store under the customer's id, and is inert: the
\* working set and the archive stay as they are, no customer of the working
\* set shows the draft, and none that enters the working set later does.
C5_LateDraftInert ==
    [][/\ \A req \in BagToSet(requests), outcome \in GenerationOutcomes :
            (GenerateDraftResponse(req, outcome)
                /\ req.customer.id \notin idsOf(customers))
            => /\ req.customer.id \in DOMAIN queued'.generatedMessages
               /\ queued'.customers = queued.customers
               /\ savedItems' = savedItems
               /\ req.customer.id \notin idsOf(queued'.customers)
       /\ \A id \in idsOf(customers') \ idsOf(customers) :
            id \notin DOMAIN generatedMessages']_vars

\* C6: once handleDelete(id) or a successful handleSave(id) has taken
\* effect, the working set has no customer with the id and the store no
\* draft for it, when the generation call that produced the draft had
\* completed before the delete was issued.
C6_DraftDeletedWithOwner ==
    [][\A id \in Ids :
          (/\ handleDelete(id) \/ (handleSave(id) /\ canSave(id))
           /\ id \in DOMAIN queued.generatedMessages)
          => /\ id \notin idsOf(customers')
             /\ id \notin DOMAIN generatedMessages']_vars

\* the requests of run r in flight
requestsOf(bag, r) == {req \in BagToSet(bag) : req.run = r}

\* the group of toProcess a position belongs to
groupOf(pos) == pos \div 3

\* C7: a Generate All run dispatches the customers without a draft in
\* groups of at most 3, in working-set order, and issues no request of a
\* group before every request of the group before it has completed.
C7_BatchesInTurn ==
    [][\A r \in DOMAIN runs' :
          LET inFlight == requestsOf(requests', r)
              issuedNow == inFlight \ requestsOf(requests, r)
              toProcess == runs'[r].toProcess
          IN  /\ Cardinality(inFlight) <= 3
              /\ \A a, b \in inFlight : groupOf(a.pos) = groupOf(b.pos)
              /\ \A a \in inFlight :
                    /\ CopiesIn(a, requests') = 1
                    /\ a.customer = toProcess[a.pos + 1]
              /\ r \notin DOMAIN runs =>
                    /\ toProcess = SelectSeq(customers,
                                      LAMBDA c : c.id \notin DOMAIN generatedMessages)
                    /\ \A a \in issuedNow : groupOf(a.pos) = 0
              /\ issuedNow # {} =>
                    /\ {a.pos : a \in issuedNow} =
                          {p \in 0..(Len(toProcess) - 1) :
                              groupOf(p) = groupOf(runs'[r].i)}
                    /\ r \in DOMAIN runs =>
                          /\ requestsOf(requests, r) \cap inFlight = {}
                          /\ groupOf(runs'[r].i) = groupOf(runs[r].i) + 1]_vars

\* C7 witness: a run has its second group in flight
C7_Witness ==
    \E r \in DOMAIN runs :
        /\ runs[r].i = 3
        /\ \E req \in requestsOf(requests, r) : req.pos >= 3

\* C8: every draft-generation call issued after a change of the
\* GenerationContext carries the changed values, whether a customer card or
\* a batch of a Generate All run issues it, and the change alters no stored
\* draft and no archive entry.
C8_ContextTakesEffect ==
    [][/\ \A req \in BagToSet(requests') :
            CopiesIn(req, requests') > CopiesIn(req, requests)
            => req.context = context'
       /\ context' # context =>
            /\ queued'.generatedMessages = queued.generatedMessages
            /\ savedItems' = savedItems]_vars

\* C9: the store holds one message per id, and a draft written for an id
\* that has one replaces it: the stored message is exactly the returned
\* one, and the drafts of the other ids are as they were.
C9_DraftReplaced ==
    [][\A req \in BagToSet(requests), outcome \in GenerationOutcomes :
          GenerateDraftResponse(req, outcome)
          => LET id == req.customer.id
                 returned == IF outcome.kind = "ok"
                             THEN Drafted(outcome.data) ELSE Fallback
             IN  /\ DOMAIN queued'.generatedMessages =
                       (DOMAIN queued.generatedMessages) \cup {id}
                 /\ queued'.generatedMessages[id] = returned
                 /\ \A other \in (DOMAIN queued.generatedMessages) \ {id} :
                       queued'.generatedMessages[other] =
                          queued.generatedMessages[other]]_vars

\* C9 witness: the fallback has been written over a drafted message that
\* is still shown
C9_Witness ==
    \E id \in DOMAIN generatedMessages :
        /\ id \in DOMAIN queued.generatedMessages
        /\ "whatsappBody" \in DOMAIN generatedMessages[id]
        /\ queued.generatedMessages[id] = Fallback

\* C10: handleSave(id) for an id that is not in the working set, or that
\* has no draft in the store, changes nothing.
C10_SaveNoOp ==
    [][\A id \in Ids :
          (/\ handleSave(id)
           /\ id \notin idsOf(customers) \/ id \notin DOMAIN generatedMessages)
          => UNCHANGED vars]_vars

\* C10 witness: a customer of the working set has no draft, and a draft of
\* the store has no customer
C10_Witness ==
    /\ \E id \in idsOf(customers) : id \notin DOMAIN generatedMessages
    /\ \E id \in DOMAIN generatedMessages : id \notin idsOf(customers)

\* the entries of the archive whose id is not id, in their order
otherEntries(items, id) == SelectSeq(items, LAMBDA item : item.customer.id # id)

\* C11: a step that is not a handleDeleteSaved of an archived id keeps every
\* archive entry as it is and where it is (it may append one); every archive
\* entry carries a message; handleDeleteSaved(id) leaves no entry with the
\* id, keeps the other entries and their order, and enqueues no change of
\* the working set or the draft store.
C11_ArchiveAppendOnly ==
    [][/\ (\A id \in savedIds(savedItems) : ~handleDeleteSaved(id))
            => /\ Len(savedItems') >= Len(savedItems)
               /\ Len(savedItems') <= Len(savedItems) + 1
               /\ \A k \in 1..Len(savedItems) : savedItems'[k] = savedItems[k]
       /\ \A k \in 1..Len(savedItems') :
            /\ "message" \in DOMAIN savedItems'[k]
            /\ savedItems'[k].message \in Messages
       /\ \A id \in savedIds(savedItems) :
            handleDeleteSaved(id)
            => /\ id \notin savedIds(savedItems')
               /\ savedItems' = otherEntries(savedItems, id)
               /\ queued'.customers = queued.customers
               /\ queued'.generatedMessages = queued.generatedMessages
               /\ customers' = queued.customers
               /\ generatedMessages' = queued.generatedMessages]_vars

\* C11 witness: an archive entry is held while the working set and the
\* draft store have been emptied and the stage is idle again
C11_Witness ==
    /\ Len(savedItems) > 0
    /\ status.stage = "idle"
    /\ customers = <<>>
    /\ DOMAIN generatedMessages = {}

\* the extraction outcomes with no record: a failure, or an empty result
EmptyOutcomes ==
    {o \in ExtractionOutcomes : o.kind # "ok" \/ Len(o.stamps) = 0}

\* C12: when an extraction call fails or returns no record, the status
\* written is stage idle, not loading, with an error message that is not
\* empty; the working set is left as it was, and no extraction call is
\* started by the continuation.
C12_ExtractionFailureIdle ==
    [][\A source \in Sources, outcome \in EmptyOutcomes :
          ExtractionResponse(source, outcome)
          => /\ queued'.status.stage = "idle"
             /\ queued'.status.loading = FALSE
             /\ queued'.status.error \notin {NoError, ""}
             /\ queued'.customers = queued.customers
             /\ customers' = customers
             /\ BagCardinality(extractions') = BagCardinality(extractions) - 1
             /\ ingests' = ingests]_vars

\* C12 witness: the operator is shown the error of an extraction, in stage
\* idle, and no extraction call is in flight
C12_Witness ==
    /\ status.stage = "idle"
    /\ ~status.loading
    /\ status.error # NoError
    /\ extractions = EmptyBag
    /\ ingests > 0

\* C13: when the call for one customer never returns, that customer's
\* indicator stays on, and once every other call of the run has returned,
\* every other customer the run targets (in the same batch or a later
\* one) has been requested and has a draft written.
C13_HungCallAffectsOnlyItsCustomer ==
    \A r \in DOMAIN runs :
        LET inFlight == requestsOf(requests, r)
            toProcess == runs[r].toProcess
        IN  /\ (\E req \in inFlight : req.customer.id = Hanging)
                => Hanging \in queued.analyzingIds
            /\ (inFlight # {} /\ returning(requests) = {})
                => \A k \in 1..Len(toProcess) :
                      toProcess[k].id # Hanging
                      => toProcess[k].id \in DOMAIN queued.generatedMessages

\* the run ids of a behaviour
RunIds == 1..(MaxRuns + 1)

\* C14: a Generate All run targets exactly the customers shown without a
\* draft when it starts, in their order; a response to one of its calls
\* writes a draft for the call's customer, whether the call failed or not,
\* and issues no second call for that customer; the run ends only when
\* every customer it targets has had its call issued and none of its calls
\* is in flight; and when every call returns, every run ends.
C14_RunTerminates ==
    /\ [][\A r \in RunIds :
            /\ (r \notin DOMAIN runs /\ r \in DOMAIN runs')
                 => /\ \A c \in idsOf(customers) :
                          c \in idsOf(runs'[r].toProcess)
                          <=> c \notin DOMAIN generatedMessages
                    /\ idsOf(runs'[r].toProcess) \subseteq idsOf(customers)
                    /\ Cardinality(requestsOf(requests', r)) =
                          Min(3, Len(runs'[r].toProcess))
            /\ \A req \in requestsOf(requests, r) :
                 CopiesIn(req, requests') < CopiesIn(req, requests)
                 => /\ req.customer.id \in DOMAIN queued'.generatedMessages
                    /\ queued'.generatedMessages[req.customer.id] \in Messages
                    /\ \A other \in requestsOf(requests', r) :
                          /\ other.customer # req.customer
                          /\ other \notin requestsOf(requests, r)
                             => other.pos > req.pos
            /\ (r \in DOMAIN runs /\ r \notin DOMAIN runs')
                 => /\ runs[r].i + 3 >= Len(runs[r].toProcess)
                    /\ requestsOf(requests', r) = {}]_vars
    /\ \A r \in RunIds : (r \in DOMAIN runs) ~> (r \notin DOMAIN runs)

\* C14 witness: no run is in progress and no call in flight, each of the
\* four customers has had one call and shows a draft, and one of the
\* drafts is the fallback
C14_Witness ==
    /\ runs = <<>>
    /\ requests = EmptyBag
    /\ Len(customers) = 4
    /\ issued = 4
    /\ \A k \in 1..Len(customers) : customers[k].id \in DOMAIN generatedMessages
    /\ \E id \in DOMAIN generatedMessages : generatedMessages[id] = Fallback

\* C15: at every instant at most 3 generation calls are in flight.
C15_AtMostThreeInFlight ==
    BagCardinality(requests) <= 3

\* every character of s is a digit
digitsOnly(s) == \A i \in 1..Len(s) : charAt(s, i) \in DigitChars

\* C16: for every phone string the card gives to the link builder with a
\* draft, the normalized phone begins with "+" and has only digits after it.
C16_NormalizedPhone ==
    (card.rendered /\ card.message # NoMessage) =>
        \A k \in 1..Len(card.phoneNumbers) :
            LET normalized == cleanPhone(card.phoneNumbers[k])
            IN  /\ startsWith(normalized, "+")
                /\ digitsOnly(substring(normalized, 1))

\* the fixed text of a link before the phone number, between the phone
\* number and the text, and after the text
linkPrefix(type) ==
    CASE type = "business" -> "intent://send?phone="
      [] type = "app" -> "whatsapp://send?phone="
      [] OTHER -> "https://wa.me/"

textMark(type) == IF type = "web" THEN "?text=" ELSE "&text="

linkSuffix(type) ==
    IF type = "business"
    THEN "#Intent;package=com.whatsapp.w4b;scheme=whatsapp;end" ELSE ""

\* what a link has between its prefix and its text mark
embeddedPhone(uri, type) ==
    LET rest == substring(uri, Len(linkPrefix(type)))
    IN  SubSeq(rest, 1, indexOf(rest, textMark(type)) - 1)

\* what a link has between its text mark and its suffix
textParam(uri, type) ==
    LET rest == substring(uri, Len(linkPrefix(type)))
        from == indexOf(rest, textMark(type)) + Len(textMark(type))
    IN  SubSeq(rest, from, Len(rest) - Len(linkSuffix(type)))

\* the character a percent code stands for
RECURSIVE decodeURIComponent(_)
decodeURIComponent(s) ==
    IF Len(s) = 0 THEN ""
    ELSE IF charAt(s, 1) = "%"
    THEN (CHOOSE ch \in DOMAIN PercentCode : PercentCode[ch] = SubSeq(s, 1, 3))
         \o decodeURIComponent(substring(s, 3))
    ELSE charAt(s, 1) \o decodeURIComponent(substring(s, 1))

\* C17: when the card has a draft, each link of each phone number is its
\* variant's prefix, a phone number of digits only, the text mark, the text
\* and the variant's suffix; the three variants embed the same phone
\* number; and the text has no character outside the unreserved ones and
\* the percent codes and decodes to the chat body (whatsappBody when the
\* message has one, body otherwise).
C17_LinkPhoneDigitsOnly ==
    (card.rendered /\ card.message # NoMessage) =>
        \A k \in 1..Len(card.phoneNumbers) :
            /\ \A type \in LinkTypes :
                 LET uri == card.links[k][type]
                     text == textParam(uri, type)
                 IN  /\ startsWith(uri, linkPrefix(type))
                     /\ includes(substring(uri, Len(linkPrefix(type))),
                                 textMark(type))
                     /\ digitsOnly(embeddedPhone(uri, type))
                     /\ embeddedPhone(uri, type) =
                           embeddedPhone(card.links[k]["web"], "web")
                     /\ \A i \in 1..Len(text) :
                           charAt(text, i) \in
                              Unreserved \cup {"%", "A", "B", "C", "D", "E", "F"}
                     /\ decodeURIComponent(text) =
                           (IF "whatsappBody" \in DOMAIN card.message
                               /\ card.message.whatsappBody # ""
                            THEN card.message.whatsappBody
                            ELSE card.message.body)

\* the fields of raw: the intervals <<a, b>> without a delimiter that a
\* delimiter or an end of raw bounds on each side
fields(raw) ==
    {f \in (1..Len(raw)) \X (1..Len(raw)) :
        /\ f[1] <= f[2]
        /\ \A i \in f[1]..f[2] : charAt(raw, i) \notin Delimiters
        /\ f[1] = 1 \/ charAt(raw, f[1] - 1) \in Delimiters
        /\ f[2] = Len(raw) \/ charAt(raw, f[2] + 1) \in Delimiters}

\* the field f without the white space at its ends, as an interval
core(raw, f) ==
    LET solid == {i \in f[1]..f[2] : charAt(raw, i) \notin WhiteSpace}
    IN  IF solid = {} THEN <<f[1], f[1] - 1>>
        ELSE <<CHOOSE i \in solid : \A j \in solid : i <= j,
               CHOOSE i \in solid : \A j \in solid : i >= j>>

\* the cores of more than 3 characters
numbers(raw) ==
    {c \in {core(raw, f) : f \in fields(raw)} : c[2] - c[1] + 1 > 3}

RECURSIVE concatenation(_)
concatenation(pieces) ==
    IF Len(pieces) = 0 THEN ""
    ELSE Head(pieces) \o concatenation(Tail(pieces))

\* s is t with some characters left out
RECURSIVE isSubsequence(_, _)
isSubsequence(s, t) ==
    IF Len(s) = 0 THEN TRUE
    ELSE IF Len(t) = 0 THEN FALSE
    ELSE IF charAt(s, 1) = charAt(t, 1)
    THEN isSubsequence(substring(s, 1), substring(t, 1))
    ELSE isSubsequence(s, substring(t, 1))

\* C18: the phone numbers of a card are the fields of customer.phone
\* between runs of delimiters, trimmed, without those of 3 characters or
\* fewer, in their order; none has 3 characters or fewer, none has a
\* delimiter, their concatenation is a subsequence of customer.phone, and
\* the empty string has none.
C18_Segmenter ==
    card.rendered =>
        LET raw == card.phone
            out == card.phoneNumbers
        IN  /\ Len(out) = Cardinality(numbers(raw))
            /\ \A c \in numbers(raw) :
                 out[Cardinality({d \in numbers(raw) : d[1] <= c[1]})] =
                    SubSeq(raw, c[1], c[2])
            /\ \A k \in 1..Len(out) :
                 /\ Len(out[k]) > 3
                 /\ \A i \in 1..Len(out[k]) : charAt(out[k], i) \notin Delimiters
            /\ isSubsequence(concatenation(out), raw)
            /\ raw = "" => out = <<>>

\* C18 witness: a card shows two phone numbers of a phone string that also
\* has a piece of 3 characters between blanks
C18_Witness ==
    /\ card.rendered
    /\ Len(card.phoneNumbers) = 2
    /\ includes(card.phone, " 123 ")

\* C19: when the sheet with the headers Firma, Temsilci, Tel, Adres and the
\* single row CompanyA, John Doe, "+1234,+5678", USA is processed with the
\* mapping as it was proposed, the rows handed over are exactly one customer
\* with company CompanyA, representative John Doe, phone "+1234,+5678" and
\* country USA, and the card of that phone shows the numbers +1234 and +5678
C19_Scenario ==
    ( /\ upload.showMapping
      /\ upload.threw
      /\ upload.excelHeaders = ScenarioHeaders
      /\ upload.excelData = <<ScenarioRow>>
      /\ mapEdits(upload.excelHeaders, upload.mapping) = {} )
    => /\ Len(upload.loaded) = 1
       /\ upload.loaded[1].company = "CompanyA"
       /\ upload.loaded[1].representative = "John Doe"
       /\ upload.loaded[1].phone = "+1234,+5678"
       /\ upload.loaded[1].country = "USA"
       /\ phoneNumbers(upload.loaded[1].phone) = <<"+1234", "+5678">>

\* character a of a header is character b of a keyword, whatever its case
sameLetter(a, b) == a = b \/ (a \in DOMAIN Lower /\ Lower[a] = b)

\* header h contains keyword k, compared case-insensitively
containsKeyword(h, k) ==
    \E p \in 1..(Len(h) - Len(k) + 1) :
       \A j \in 1..Len(k) : sameLetter(charAt(h, p + j - 1), charAt(k, j))

\* the positions of the headers that contain a keyword of the field
matching(headers, field) ==
    {i \in 1..Len(headers) :
        \E k \in 1..Len(Keywords[field]) :
           /\ headers[i] # Absent
           /\ containsKeyword(toString(headers[i]), Keywords[field][k])}

\* C20: when a spreadsheet is read, the mapping proposed for each of the
\* seven fields is the leftmost header that contains, compared
\* case-insensitively, a keyword of the field, and "" when no header does,
\* whatever the mapping was before and whatever the other fields get
C20_AutoMap ==
    [][(~upload.showMapping /\ upload'.showMapping)
       => \A field \in MappingFields :
             LET at == matching(upload'.excelHeaders, field)
             IN  IF at = {} THEN upload'.mapping[field] = ""
                 ELSE \E i \in at :
                         /\ \A j \in at : i <= j
                         /\ Text(upload'.mapping[field]) =
                               upload'.excelHeaders[i]]_vars

\* a click on Process Rows: the panel stays with its sheet and its mapping
processed ==
    /\ upload.showMapping /\ upload'.showMapping
    /\ upload'.excelHeaders = upload.excelHeaders
    /\ upload'.excelData = upload.excelData
    /\ upload'.mapping = upload.mapping
    /\ upload'.threw
    /\ upload' # upload

\* the fields of the record the normalizer makes of row k of the sheet shown
normalized(k) ==
    [field \in MappingFields |->
        getVal(upload.excelHeaders, upload.excelData[k], upload.mapping[field])]

\* the row a record handed over comes from: the index in its id, plus one
rowOf(record) == record.id[3] + 1

RECURSIVE decimal(_)
decimal(t) ==
    IF Len(t) = 0 THEN 0
    ELSE 10 * decimal(SubSeq(t, 1, Len(t) - 1))
         + (indexOf(Digits, charAt(t, Len(t))) - 1)

\* t is the text s without the whitespace around it
trimmed(s, t) ==
    /\ \E before, after \in 0..Len(s) :
          /\ before + Len(t) + after = Len(s)
          /\ SubSeq(s, before + 1, before + Len(t)) = t
          /\ \A i \in 1..Len(s) :
                (i <= before \/ i > before + Len(t))
                => charAt(s, i) \in WhiteSpace
    /\ Len(t) > 0 => /\ charAt(t, 1) \notin WhiteSpace
                     /\ charAt(t, Len(t)) \notin WhiteSpace

\* t is the textual form of the cell, without the whitespace around it
textOf(cell, t) ==
    IF "text" \in DOMAIN cell THEN trimmed(cell.text, t)
    ELSE /\ Len(t) > 0
         /\ \A i \in 1..Len(t) : charAt(t, i) \in DigitChars
         /\ Len(t) > 1 => charAt(t, 1) # "0"
         /\ decimal(t) = cell.number

\* C22: in every record handed over, a field is "" when it maps to none,
\* when its header is not among the headers or when the row has no cell in
\* the leftmost column of that header, and otherwise the text of that cell,
\* a number's digits included, without the whitespace around it
C22_RowNormalizer ==
    [][processed
       => \A j \in 1..Len(upload'.loaded) :
             \A field \in MappingFields :
                LET headers == upload.excelHeaders
                    row == upload.excelData[rowOf(upload'.loaded[j])]
                    value == upload'.loaded[j][field]
                    columns == {i \in 1..Len(headers) :
                                   headers[i] = Text(upload.mapping[field])}
                IN  IF upload.mapping[field] = "" \/ columns = {}
                    THEN value = ""
                    ELSE \E c \in columns :
                            /\ \A d \in columns : c <= d
                            /\ IF c > Len(row) \/ row[c] = Absent
                               THEN value = ""
                               ELSE textOf(row[c], value)]_vars

\* C23: reading a sheet never throws, whatever its header row: the column
\* mapper completes for header rows with blank cells too
C23_NoThrow ==
    [][(~upload.showMapping /\ upload'.showMapping) => ~upload'.threw]_vars

\* C24: a click on Process Rows that hands over at least one record makes
\* these records the working set and puts the application in stage
\* reviewing, as a successful extraction does
C24_SpreadsheetReachesWorkingSet ==
    [][(processed /\ Len(upload'.loaded) > 0)
       => /\ idsOf(queued'.customers) = idsOf(upload'.loaded)
          /\ queued'.status.stage = "reviewing"]_vars

\* C29: when a sheet is read, no header is proposed for two fields
C29_OneFieldPerHeader ==
    [][(~upload.showMapping /\ upload'.showMapping /\ ~upload'.threw)
       => \A f, g \in MappingFields :
             (f # g /\ upload'.mapping[f] # "")
             => upload'.mapping[f] # upload'.mapping[g]]_vars

\* no call returns in the step
noResponse ==
    /\ requests' = requests
    /\ extractions' = extractions

\* a step of handleDelete, on its own or from handleSave, that takes
\* customers out of the working set: the ids it takes out
removed ==
    IF noResponse /\ queued'.status = queued.status
    THEN idsOf(queued.customers) \ idsOf(queued'.customers)
    ELSE {}

\* C25: a step that deletes or archives a customer leaves the draft of
\* every other customer in the store as it is, the drafts that responses
\* have written since the last render included
C25_DeleteKeepsOtherDrafts ==
    [][removed # {}
       => \A b \in DOMAIN queued.generatedMessages :
             b \notin removed
             => /\ b \in DOMAIN queued'.generatedMessages
                /\ queued'.generatedMessages[b] = queued.generatedMessages[b]]_vars

\* the ids of the customers with a generation call in flight
inFlight == {req.customer.id : req \in BagToSet(requests)}

\* C26: the generation indicator is on for exactly the customers with a
\* generation call in flight
C26_IndicatorIffInFlight ==
    queued.analyzingIds = inFlight

\* C27: no customer has two generation calls in flight
C27_OneCallPerCustomer ==
    \A req, other \in BagToSet(requests) :
       req.customer.id = other.customer.id
       => /\ req = other
          /\ CopiesIn(req, requests) = 1

\* a click on Start Over: the only step without a response that changes
\* the status while the stage shown is reviewing
startedOver ==
    /\ status.stage = "reviewing"
    /\ noResponse
    /\ queued'.status # queued.status

====
